---- MODULE Spec2Model ----
(***************************************************************************)
(* A model of the MoodSpace backend (server.py): the route handlers that   *)
(* read and write the mood_entries, user_progress and stories collections, *)
(* taken one await at a time, and the numeric part of the mood analytics.  *)
(*                                                                         *)
(* Every handler is an asyncio coroutine: between two awaits it runs       *)
(* alone, and at an await (a MongoDB call, the LLM call) any other request *)
(* may run.  One action of the model is one such segment: the completion   *)
(* of an await together with the code up to the next one.  A request's     *)
(* arrival is taken together with the completion of its first await, since *)
(* no handler reads or writes anything shared before it.                   *)
(*                                                                         *)
(* A MongoDB call on a single document (insert_one, find_one, update_one   *)
(* with $inc, find().sort().limit()) is atomic.  uuid4() is a counter of   *)
(* fresh identifiers, one per collection.  datetime.now() is the wall      *)
(* clock, in microseconds: it may stand still or be set back between two   *)
(* readings, and the store keeps its milliseconds only.  Any store call may *)
(* raise.  The emotions, description, title, story and category fields are *)
(* carried by the code from the request to the store untouched and are     *)
(* left out.                                                               *)
(***************************************************************************)
EXTENDS Integers, Sequences, FiniteSets, Bags, TLC

\* ------------------------------------------------------------------------
\* Bounds of the model
\* ------------------------------------------------------------------------
\* requests that can be in flight at once
NumSlots == 2
\* mood submissions that get as far as building their MoodEntry
MaxMoods == 2
\* stories created
MaxStories == 3
\* support calls made
MaxSupports == 4
\* store calls that fail
MaxStoreFailures == 1

\* ------------------------------------------------------------------------
\* Program constants
\* ------------------------------------------------------------------------
\* update_user_progress(..., points: int = 5)
DefaultPoints == 5
\* get_mood_analytics: .limit(14).to_list(14)
AnalyticsLimit == 14
\* get_user_moods(..., limit: int = 30)
DefaultMoodsLimit == 30

Sessions == {"s1", "s2"}
\* mood_score values a client posts: one end of the documented 1-10 scale
\* and a value just outside it
PostedScores == {0, 10}
\* limit values a client gives to GET /api/mood/{session}
Limits == {1, DefaultMoodsLimit}
\* ai_insights: Optional[str] = None
NoText == "None"
\* what chat.send_message returns when it does not raise: a text, the empty
\* text, or None; the handler stores whichever it is
Replies == {"insight A", "", NoText}
\* what datetime.now() reads when a MoodEntry is built, in microseconds:
\* two instants of one millisecond and one of the next, in any order
Times == {0, 1, 1000}
\* chat.send_message raising
LlmError == "LlmError"

\* ------------------------------------------------------------------------
\* Sequences
\* ------------------------------------------------------------------------
Min(a, b) == IF a < b THEN a ELSE b

\* cursor.limit(n).to_list(n): the first n documents
Take(seq, n) == SubSeq(seq, 1, Min(n, Len(seq)))

\* find({"user_session": user_session}) on a collection
FindBySession(coll, user_session) ==
    LET Match(d) == d.user_session = user_session
    IN SelectSeq(coll, Match)

\* the positions in a collection of the documents with this user_session
MatchIdx(coll, user_session) ==
    {i \in 1..Len(coll) : coll[i].user_session = user_session}

\* .sort("timestamp", -1): the orders the store may return the documents in,
\* newest first.  Documents with equal timestamps come in either order.
SortByTimestampDesc(docs) ==
    LET n == Len(docs)
        orders == {p \in [1..n -> 1..n] :
                     /\ \A i, j \in 1..n : i # j => p[i] # p[j]
                     /\ \A i, j \in 1..n :
                           i < j => docs[p[i]].timestamp.micros
                                       >= docs[p[j]].timestamp.micros}
    IN {[i \in 1..n |-> docs[p[i]]] : p \in orders}

\* db.mood_entries.find({"user_session": s}).sort("timestamp", -1).limit(n)
\* .to_list(n): the lists the store may return
FindRecentMoods(coll, user_session, n) ==
    {Take(sorted, n) :
        sorted \in SortByTimestampDesc(FindBySession(coll, user_session))}

\* ------------------------------------------------------------------------
\* Documents
\* ------------------------------------------------------------------------
\* datetime.now(timezone.utc): the reading of the clock, in microseconds,
\* with its time zone
UtcNow(micros) == [micros |-> micros, tzinfo |-> "UTC"]

\* the microseconds the store keeps of a datetime (BSON): those below the
\* millisecond are dropped
Truncate(micros) == micros - (micros % 1000)

\* a MoodEntry as insert_one(mood_obj.dict()) stores it and as
\* MoodEntry(**mood) reads it back: the timestamp is cut to the millisecond
\* and, the client being created without tz_aware, comes back with no time
\* zone
StoredCopy(mood) ==
    [mood EXCEPT !.timestamp = [micros |-> Truncate(@.micros),
                                tzinfo |-> "None"]]

\* MoodEntry(**mood_dict): id and timestamp come from the default factories
MoodEntry(id, user_session, mood_score, timestamp, ai_insights) ==
    [id |-> id, user_session |-> user_session, mood_score |-> mood_score,
     timestamp |-> timestamp, ai_insights |-> ai_insights]

\* UserProgress(user_session=..., total_points=..., mood_entries_count=...)
UserProgress(id, user_session, total_points, mood_entries_count) ==
    [id |-> id, user_session |-> user_session, total_points |-> total_points,
     completed_challenges |-> <<>>, current_streak |-> 0,
     mood_entries_count |-> mood_entries_count]

\* AnonymousStory(**story_dict)
AnonymousStory(id, user_session) ==
    [id |-> id, user_session |-> user_session, is_approved |-> FALSE,
     support_count |-> 0]

\* MoodEntryCreate: what pydantic lets through (mood_score: int, no range)
MoodEntryCreateValid(mood_score) == mood_score \in Int

\* ------------------------------------------------------------------------
\* Analytics: the numbers of get_mood_analytics
\* ------------------------------------------------------------------------
RECURSIVE SumScores(_)
\* sum(mood['mood_score'] for mood in recent_moods)
SumScores(moods) ==
    IF moods = <<>> THEN 0
    ELSE moods[1].mood_score + SumScores(Tail(moods))

\* A faulty RoundTenths: a tie goes up, not to the even digit.
RoundTenthsHalfUp(total, n) ==
    LET q == (10 * total) \div n
        r == (10 * total) % n
    IN IF 2 * r < n THEN q ELSE q + 1

\* round(total / n, 1), in tenths.  total / n is the double nearest the
\* quotient and round() rounds that double correctly, a tie to the even
\* digit.  For the sums and lengths of a 14-entry window the only ties are
\* x.25 and x.75, which are doubles, and every other quotient is further
\* from a tie than the double is from the quotient: the result is the exact
\* quotient rounded half to even.
RoundTenths(total, n) ==
    LET q == (10 * total) \div n
        r == (10 * total) % n
    IN IF 2 * r < n THEN q
       ELSE IF 2 * r > n THEN q + 1
       ELSE IF q % 2 = 0 THEN q ELSE q + 1

\* recent_moods[0]['mood_score'] > avg_mood, avg_mood the unrounded double:
\* an integer exceeds the double nearest total / n exactly when it exceeds
\* total / n
AboveAverage(score, total, n) == score * n > total

\* A faulty Trend: >= for >.
TrendAtLeast(moods) ==
    IF moods[1].mood_score * Len(moods) >= SumScores(moods)
    THEN "improving" ELSE "stable"

\* "improving" if recent_moods[0]['mood_score'] > avg_mood else "stable"
Trend(moods) ==
    IF AboveAverage(moods[1].mood_score, SumScores(moods), Len(moods))
    THEN "improving" ELSE "stable"

\* average_mood of the response, in tenths (70 is 7.0)
AverageMood(moods) == RoundTenths(SumScores(moods), Len(moods))

\* A faulty NoMoodData: the empty result is not told apart.
NoMoodDataNever(moods) == FALSE

\* if not recent_moods
NoMoodData(moods) == moods = <<>>

\* the dict get_mood_analytics returns; sum()/len() of an empty list raises
\* ZeroDivisionError, which the handler turns into a 500
MoodStats(moods, analysis) ==
    IF Len(moods) = 0 THEN <<>>
    ELSE <<[analysis |-> analysis, average_mood |-> AverageMood(moods),
            total_entries |-> Len(moods), trend |-> Trend(moods)]>>

\* ------------------------------------------------------------------------
\* State
\* ------------------------------------------------------------------------
VARIABLES
    mood_entries,    \* db.mood_entries, in store order
    user_progress,   \* db.user_progress, in store order
    stories,         \* db.stories, in store order
    req,             \* the requests under way (a bag), each at an await
    resp,            \* the response sent last
    clock,           \* MoodEntry objects built: their uuid4()
    \* history, read by the properties only
    acked,           \* the MoodEntry bodies POST /api/mood returned with 200
    generated,       \* per MoodEntry id, what the Insight Generator replied
    created,         \* user_progress documents as they were when inserted
    upd_done,        \* per session: update_user_progress calls completed
    inc_done,        \* per session: those that took the update_one branch
    overlap,         \* per session: two progress calls were under way at once
    supported,       \* per story (store order): support calls answered 200
    store_failures,  \* store calls that failed
    failed,          \* some request was answered with a non-success status
    \* the analytics computation on its own
    window,          \* mood scores, newest first
    stats            \* what get_mood_analytics computes from them

vars == <<mood_entries, user_progress, stories, req, resp, clock, acked,
          generated, created, upd_done, inc_done, overlap, supported,
          store_failures, failed, window, stats>>

store == <<mood_entries, user_progress, stories>>
history == <<acked, generated, created, upd_done, inc_done, overlap,
             supported, store_failures, failed>>
pure == <<window, stats>>

\* a request under way: its handler, the await it is at (pc) and the
\* handler's locals
Request(op, pc, user_session) ==
    [op |-> op, pc |-> pc, user_session |-> user_session,
     mood_obj |-> <<>>, found |-> FALSE, recent_moods |-> <<>>,
     n_matching |-> 0]

\* no response yet.  status and the body (kind, moods, progress, message,
\* stats) are what the client receives; the other fields record the request
\* it answers: the handler, its session and limit, the MoodEntry it built,
\* whether it called the Insight Generator, whether a store call of it
\* raised (store_failed), the number of entries of the session the store
\* held (n_matching) and, when it read mood_entries, those entries (stored)
\* and which of them a POST had returned (acked_before).
NoResponse == [op |-> "none", user_session |-> "", status |-> 0,
               kind |-> "none", moods |-> <<>>, progress |-> <<>>,
               message |-> "", stats |-> <<>>,
               limit |-> 0, mood_obj |-> <<>>, called_llm |-> FALSE,
               store_failed |-> FALSE, n_matching |-> 0, stored |-> {},
               acked_before |-> {}]

Init ==
    /\ mood_entries = <<>>
    /\ user_progress = <<>>
    /\ stories = <<>>
    /\ req = EmptyBag
    /\ resp = NoResponse
    /\ clock = 0
    /\ acked = {}
    /\ generated = {}
    /\ created = <<>>
    /\ upd_done = [s \in Sessions |-> 0]
    /\ inc_done = [s \in Sessions |-> 0]
    /\ overlap = [s \in Sessions |-> FALSE]
    /\ supported = <<>>
    /\ store_failures = 0
    /\ failed = FALSE
    /\ window = <<>>
    /\ stats = <<>>

\* ------------------------------------------------------------------------
\* Requests and responses
\* ------------------------------------------------------------------------
\* the requests under way
Requests == BagToSet(req)

\* a further request can be taken
Accepting == BagCardinality(req) < NumSlots

\* the requests under way, one more, one fewer, one moved on
Started(r) == req (+) SetToBag({r})
Finished(r) == req (-) SetToBag({r})
Moved(r, r2) == Finished(r) (+) SetToBag({r2})

\* a handler returning: FastAPI answers 200
Ok(op, user_session) ==
    [NoResponse EXCEPT !.op = op, !.user_session = user_session,
                       !.status = 200]

\* raise HTTPException(status_code=500, ...), or an exception FastAPI turns
\* into a 500
ServerError(op, user_session) ==
    [NoResponse EXCEPT !.op = op, !.user_session = user_session,
                       !.status = 500, !.kind = "error"]

\* request q is in a progress call (update_user_progress, or
\* get_user_progress about to create) for this session
InProgressCall(q, user_session) ==
    /\ q.user_session = user_session
    /\ q.pc \in {"find_one", "write", "gp_insert"}

\* a progress call for the session is under way among these requests
Overlaps(others, user_session) ==
    \E q \in BagToSet(others) : InProgressCall(q, user_session)

\* the entries of a session the store holds
StoredMoods(user_session) ==
    {mood_entries[i] : i \in {j \in 1..Len(mood_entries) :
                                mood_entries[j].user_session = user_session}}

\* and their number
CountMoods(user_session) == Cardinality(StoredMoods(user_session))

\* ------------------------------------------------------------------------
\* POST /api/mood: create_mood_entry, then update_user_progress
\* ------------------------------------------------------------------------
\* mood_dict = mood_data.dict(); mood_dict['ai_insights'] = ai_response;
\* mood_obj = MoodEntry(**mood_dict)
BuildMoodEntry(id, user_session, mood_score, timestamp, ai_response) ==
    MoodEntry(id, user_session, mood_score, timestamp, ai_response)

\* the request is validated, chat.send_message returns (or raises) and the
\* MoodEntry is built; timestamp is what datetime.now() reads then
CreateMoodEntry_SendMessage(user_session, mood_score, reply, timestamp) ==
    /\ Accepting
    /\ clock < MaxMoods
    /\ MoodEntryCreateValid(mood_score)
    /\ IF reply = LlmError
       THEN /\ resp' = [ServerError("create_mood_entry", user_session)
                           EXCEPT !.called_llm = TRUE]
            /\ failed' = TRUE
            /\ UNCHANGED <<req, clock, generated>>
       ELSE /\ req' = Started(
                    [Request("create_mood_entry", "insert_one", user_session)
                        EXCEPT !.mood_obj = <<BuildMoodEntry(clock + 1,
                                   user_session, mood_score, UtcNow(timestamp),
                                   reply)>>])
            /\ clock' = clock + 1
            /\ generated' = generated \cup {[id |-> clock + 1, reply |-> reply]}
            /\ UNCHANGED <<resp, failed>>
    /\ UNCHANGED <<store, acked, created, upd_done, inc_done, overlap,
                   supported, store_failures, pure>>

\* await db.mood_entries.insert_one(mood_obj.dict()), and update_user_progress
\* is entered
CreateMoodEntry_InsertOne(r) ==
    /\ r.pc = "insert_one"
    /\ mood_entries' = Append(mood_entries, StoredCopy(r.mood_obj[1]))
    /\ req' = Moved(r, [r EXCEPT !.pc = "find_one"])
    /\ overlap' = [overlap EXCEPT ![r.user_session] =
                       @ \/ Overlaps(Finished(r), r.user_session)]
    /\ UNCHANGED <<user_progress, stories, resp, clock, acked, generated,
                   created, upd_done, inc_done, supported, store_failures,
                   failed, pure>>

\* progress = await db.user_progress.find_one({"user_session": user_session})
UpdateUserProgress_FindOne(r) ==
    /\ r.pc = "find_one"
    /\ req' = Moved(r, [r EXCEPT !.pc = "write",
                                 !.found = MatchIdx(user_progress,
                                               r.user_session) # {}])
    /\ UNCHANGED <<store, resp, clock, history, pure>>

\* A faulty NewProgress: mood_entries_count is left at its default.
NewProgressNoCount(id, user_session, activity_type, points) ==
    UserProgress(id, user_session, points, 0)

\* progress_obj = UserProgress(user_session=user_session, total_points=points);
\* if activity_type == "mood_entry": progress_obj.mood_entries_count = 1
NewProgress(id, user_session, activity_type, points) ==
    UserProgress(id, user_session, points,
                 IF activity_type = "mood_entry" THEN 1 ELSE 0)

\* A faulty IncProgress: $set where $inc is meant.
SetProgress(doc, activity_type, points) ==
    [doc EXCEPT !.total_points = points,
                !.mood_entries_count =
                    IF activity_type = "mood_entry" THEN 1 ELSE @]

\* {"$inc": {"total_points": points}}, and mood_entries_count by 1 for a
\* "mood_entry", applied to one document
IncProgress(doc, activity_type, points) ==
    [doc EXCEPT !.total_points = @ + points,
                !.mood_entries_count =
                    IF activity_type = "mood_entry" THEN @ + 1 ELSE @]

\* update_user_progress has returned: return mood_obj
MoodCreated(r) ==
    /\ resp' = [Ok("create_mood_entry", r.user_session)
                   EXCEPT !.kind = "mood", !.moods = r.mood_obj,
                          !.mood_obj = r.mood_obj, !.called_llm = TRUE]
    /\ req' = Finished(r)
    /\ acked' = acked \cup {r.mood_obj[1]}
    /\ upd_done' = [upd_done EXCEPT ![r.user_session] = @ + 1]

\* not progress: await db.user_progress.insert_one(progress_obj.dict())
UpdateUserProgress_InsertOne(r) ==
    /\ r.pc = "write"
    /\ ~r.found
    /\ LET doc == NewProgress(Len(user_progress) + 1, r.user_session,
                              "mood_entry", DefaultPoints)
       IN /\ user_progress' = Append(user_progress, doc)
          /\ created' = Append(created, doc)
    /\ MoodCreated(r)
    /\ UNCHANGED <<mood_entries, stories, clock, generated, inc_done, overlap,
                   supported, store_failures, failed, pure>>

\* else: await db.user_progress.update_one({"user_session": ...}, update_data).
\* update_one changes one document that matches; which one, when several
\* match, is the store's choice.
UpdateUserProgress_UpdateOne(r) ==
    /\ r.pc = "write"
    /\ r.found
    /\ \E i \in MatchIdx(user_progress, r.user_session) :
          user_progress' = [user_progress EXCEPT ![i] =
              IncProgress(@, "mood_entry", DefaultPoints)]
    /\ MoodCreated(r)
    /\ inc_done' = [inc_done EXCEPT ![r.user_session] = @ + 1]
    /\ UNCHANGED <<mood_entries, stories, clock, generated, created,
                   overlap, supported, store_failures, failed, pure>>

\* a handler's first store call raises: get_mood_analytics's except clause,
\* or FastAPI for the handlers that have none, answers 500.  Nothing has
\* been read or written.
StoreUnavailableAtFirstCall(op, user_session) ==
    /\ Accepting
    /\ store_failures < MaxStoreFailures
    /\ resp' = [ServerError(op, user_session)
                   EXCEPT !.store_failed = TRUE,
                          !.n_matching = CountMoods(user_session)]
    /\ store_failures' = store_failures + 1
    /\ failed' = TRUE
    /\ UNCHANGED <<store, req, clock, acked, generated, created, upd_done,
                   inc_done, overlap, supported, pure>>

\* a later store call of a request under way raises: create_mood_entry's
\* except clause, or FastAPI for get_user_progress, answers 500.  The call
\* that raised changed nothing.
StoreUnavailable(r) ==
    /\ r.pc \in {"insert_one", "find_one", "write", "gp_insert"}
    /\ store_failures < MaxStoreFailures
    /\ resp' = [ServerError(r.op, r.user_session)
                   EXCEPT !.mood_obj = r.mood_obj,
                          !.store_failed = TRUE,
                          !.called_llm = (r.op = "create_mood_entry")]
    /\ req' = Finished(r)
    /\ store_failures' = store_failures + 1
    /\ failed' = TRUE
    /\ UNCHANGED <<store, clock, acked, generated, created, upd_done,
                   inc_done, overlap, supported, pure>>

\* ------------------------------------------------------------------------
\* GET /api/mood/{user_session}
\* ------------------------------------------------------------------------
\* moods = await db.mood_entries.find(...).sort("timestamp", -1).limit(limit)
\*     .to_list(limit); return [MoodEntry(**mood) for mood in moods]
GetUserMoods(user_session, limit) ==
    /\ Accepting
    /\ \E moods \in FindRecentMoods(mood_entries, user_session, limit) :
          resp' = [Ok("get_user_moods", user_session)
                   EXCEPT !.kind = "moods",
                          !.moods = moods,
                          !.limit = limit,
                          !.n_matching = CountMoods(user_session),
                          !.stored = StoredMoods(user_session),
                          !.acked_before =
                              {e \in acked : e.user_session = user_session}]
    /\ UNCHANGED <<store, req, clock, history, pure>>

\* ------------------------------------------------------------------------
\* GET /api/progress/{user_session}
\* ------------------------------------------------------------------------
\* progress = await db.user_progress.find_one({"user_session": user_session});
\* found: return UserProgress(**progress).  find_one returns one document
\* that matches; which one, when several match, is the store's choice.
GetUserProgress_FindOne(user_session) ==
    /\ Accepting
    /\ IF MatchIdx(user_progress, user_session) = {}
       THEN /\ req' = Started(Request("get_user_progress", "gp_insert",
                                      user_session))
            /\ UNCHANGED resp
       ELSE /\ \E i \in MatchIdx(user_progress, user_session) :
                  resp' = [Ok("get_user_progress", user_session)
                              EXCEPT !.kind = "progress",
                                     !.progress = <<user_progress[i]>>]
            /\ UNCHANGED req
    /\ overlap' = [overlap EXCEPT ![user_session] =
                       @ \/ Overlaps(req, user_session)]
    /\ UNCHANGED <<store, clock, acked, generated, created, upd_done,
                   inc_done, supported, store_failures, failed, pure>>

\* not progress: progress_obj = UserProgress(user_session=user_session);
\* await db.user_progress.insert_one(progress_obj.dict()); return progress_obj
GetUserProgress_InsertOne(r) ==
    /\ r.pc = "gp_insert"
    /\ LET doc == UserProgress(Len(user_progress) + 1, r.user_session, 0, 0)
       IN /\ user_progress' = Append(user_progress, doc)
          /\ created' = Append(created, doc)
          /\ resp' = [Ok("get_user_progress", r.user_session)
                         EXCEPT !.kind = "progress", !.progress = <<doc>>]
    /\ req' = Finished(r)
    /\ UNCHANGED <<mood_entries, stories, clock, acked, generated, upd_done,
                   inc_done, overlap, supported, store_failures, failed, pure>>

\* ------------------------------------------------------------------------
\* GET /api/analytics/{user_session}
\* ------------------------------------------------------------------------
\* recent_moods = await db.mood_entries.find(...).sort("timestamp", -1)
\*     .limit(14).to_list(14); if not recent_moods: return {"message": ...}
GetMoodAnalytics_Find(user_session) ==
    /\ Accepting
    /\ \E recent \in FindRecentMoods(mood_entries, user_session,
                                      AnalyticsLimit) :
          IF NoMoodData(recent)
          THEN /\ resp' = [Ok("get_mood_analytics", user_session)
                              EXCEPT !.kind = "message",
                                     !.message = "No mood data available",
                                     !.n_matching = CountMoods(user_session)]
               /\ UNCHANGED req
          ELSE /\ req' = Started(
                     [Request("get_mood_analytics", "an_llm", user_session)
                         EXCEPT !.recent_moods = recent,
                                !.n_matching = CountMoods(user_session)])
               /\ UNCHANGED resp
    /\ UNCHANGED <<store, clock, history, pure>>

\* analysis = await chat.send_message(user_message); the stats; the return,
\* or the except clause's 500
GetMoodAnalytics_SendMessage(r, reply) ==
    /\ r.pc = "an_llm"
    /\ LET result == MoodStats(r.recent_moods, reply)
       IN IF reply = LlmError \/ result = <<>>
          THEN /\ resp' = [ServerError("get_mood_analytics", r.user_session)
                              EXCEPT !.called_llm = TRUE,
                                     !.n_matching = r.n_matching]
               /\ failed' = TRUE
          ELSE /\ resp' = [Ok("get_mood_analytics", r.user_session)
                              EXCEPT !.kind = "analytics", !.stats = result,
                                     !.called_llm = TRUE,
                                     !.n_matching = r.n_matching]
               /\ UNCHANGED failed
    /\ req' = Finished(r)
    /\ UNCHANGED <<store, clock, acked, generated, created, upd_done,
                   inc_done, overlap, supported, store_failures, pure>>

\* ------------------------------------------------------------------------
\* Stories
\* ------------------------------------------------------------------------
\* story_obj = AnonymousStory(**story_dict);
\* await db.stories.insert_one(story_obj.dict()); return story_obj
CreateStory(user_session) ==
    /\ Accepting
    /\ Len(stories) < MaxStories
    /\ stories' = Append(stories, AnonymousStory(Len(stories) + 1, user_session))
    /\ supported' = Append(supported, 0)
    /\ resp' = [Ok("create_story", user_session) EXCEPT !.kind = "story"]
    /\ UNCHANGED <<mood_entries, user_progress, req, clock, acked, generated,
                   created, upd_done, inc_done, overlap, store_failures,
                   failed, pure>>

RECURSIVE SumSeq(_)
SumSeq(seq) == IF seq = <<>> THEN 0 ELSE seq[1] + SumSeq(Tail(seq))

\* A faulty IncSupport: $set where $inc is meant.
SetSupport(doc) == [doc EXCEPT !.support_count = 1]

\* {"$inc": {"support_count": 1}} applied to one story
IncSupport(doc) == [doc EXCEPT !.support_count = @ + 1]

\* await db.stories.update_one({"id": story_id}, {"$inc": {"support_count": 1}});
\* return {"message": "Support added"}.  An id no story has matches nothing
\* and the answer is the same.
SupportStory(story_id) ==
    /\ Accepting
    /\ SumSeq(supported) < MaxSupports
    /\ LET hit == {i \in 1..Len(stories) : stories[i].id = story_id}
       IN IF hit = {}
          THEN UNCHANGED <<stories, supported>>
          ELSE \E i \in hit :
                  /\ stories' = [stories EXCEPT ![i] = IncSupport(@)]
                  /\ supported' = [supported EXCEPT ![i] = @ + 1]
    /\ resp' = [Ok("support_story", "") EXCEPT !.kind = "message",
                                              !.message = "Support added"]
    /\ UNCHANGED <<mood_entries, user_progress, req, clock, acked, generated,
                   created, upd_done, inc_done, overlap, store_failures,
                   failed, pure>>

\* the story ids a client may name: those of the stories, and one of none
StoryIds == {stories[i].id : i \in 1..Len(stories)} \cup {0}

\* ------------------------------------------------------------------------
\* Specifications
\* ------------------------------------------------------------------------
\* The handlers fall into groups that share no collection: those of the
\* stories touch db.stories alone, and GET /api/mood and GET /api/analytics
\* read db.mood_entries and write nothing.  Each specification interleaves
\* the handlers of one group with the ones that write what they read.

\* what the Insight Generator may do
LlmOutcomes == Replies \cup {LlmError}

\* Mood submission and progress, the handlers that read and write
\* user_progress: POST /api/mood and GET /api/progress.  Neither reads a
\* mood_score, an ai_insights or a timestamp: one score, one text and one
\* instant stand for all of them here.
Next ==
    \/ \E s \in Sessions, r \in {"insight A", LlmError} :
          CreateMoodEntry_SendMessage(s, 10, r, 0)
    \/ \E r \in Requests : CreateMoodEntry_InsertOne(r)
    \/ \E r \in Requests : UpdateUserProgress_FindOne(r)
    \/ \E r \in Requests : UpdateUserProgress_InsertOne(r)
    \/ \E r \in Requests : UpdateUserProgress_UpdateOne(r)
    \/ \E r \in Requests : StoreUnavailable(r)
    \/ \E s \in Sessions : StoreUnavailableAtFirstCall("get_user_progress", s)
    \/ \E s \in Sessions : GetUserProgress_FindOne(s)
    \/ \E r \in Requests : GetUserProgress_InsertOne(r)

Spec == Init /\ [][Next]_vars

\* Mood submission and the reading of the entries: POST /api/mood and
\* GET /api/mood, which returns every field of an entry.
NextMoods ==
    \/ \E s \in Sessions, m \in PostedScores, r \in LlmOutcomes,
          ts \in Times :
          CreateMoodEntry_SendMessage(s, m, r, ts)
    \/ \E r \in Requests : CreateMoodEntry_InsertOne(r)
    \/ \E r \in Requests : UpdateUserProgress_FindOne(r)
    \/ \E r \in Requests : UpdateUserProgress_InsertOne(r)
    \/ \E r \in Requests : UpdateUserProgress_UpdateOne(r)
    \/ \E r \in Requests : StoreUnavailable(r)
    \/ \E s \in Sessions : StoreUnavailableAtFirstCall("get_user_moods", s)
    \/ \E s \in Sessions, l \in Limits : GetUserMoods(s, l)

SpecMoods == Init /\ [][NextMoods]_vars

\* Mood submission and the analytics over the entries: POST /api/mood and
\* GET /api/analytics, which reads the mood_score and the order of the
\* entries and not their ai_insights: one text stands for all of them here.
NextMoodAnalytics ==
    \/ \E s \in Sessions, m \in PostedScores, r \in {"insight A", LlmError},
          ts \in Times :
          CreateMoodEntry_SendMessage(s, m, r, ts)
    \/ \E r \in Requests : CreateMoodEntry_InsertOne(r)
    \/ \E r \in Requests : UpdateUserProgress_FindOne(r)
    \/ \E r \in Requests : UpdateUserProgress_InsertOne(r)
    \/ \E r \in Requests : UpdateUserProgress_UpdateOne(r)
    \/ \E r \in Requests : StoreUnavailable(r)
    \/ \E s \in Sessions : StoreUnavailableAtFirstCall("get_mood_analytics", s)
    \/ \E s \in Sessions : GetMoodAnalytics_Find(s)
    \/ \E r \in Requests, a \in LlmOutcomes :
          GetMoodAnalytics_SendMessage(r, a)

SpecMoodAnalytics == Init /\ [][NextMoodAnalytics]_vars

\* The stories.
NextStories ==
    \/ \E s \in Sessions : CreateStory(s)
    \/ \E id \in StoryIds : SupportStory(id)
    \/ \E s \in Sessions : StoreUnavailableAtFirstCall("create_story", s)
    \/ StoreUnavailableAtFirstCall("support_story", "")

SpecStories == Init /\ [][NextStories]_vars

\* ------------------------------------------------------------------------
\* The analytics computation on its own
\* ------------------------------------------------------------------------
\* mood scores of the windows
WindowScores == 0..11

\* n copies of x
Rep(x, n) == [i \in 1..n |-> x]

\* The windows tried: a most recent score followed by a run of one score and
\* a run of another, 1 to 14 entries in all.  The code reads the first
\* score, the sum and the length of a window; every combination of the
\* three that a window of these scores can have is among them.
Windows ==
    {w \in {<<f>> \o Rep(x, a) \o Rep(y, b) :
               f \in WindowScores, x \in WindowScores, y \in WindowScores,
               a \in 0..(AnalyticsLimit - 1), b \in 0..(AnalyticsLimit - 1)} :
        Len(w) <= AnalyticsLimit}

\* the documents find() returns for a window of scores, newest first
WindowMoods(w) ==
    [i \in 1..Len(w) |->
        StoredCopy(MoodEntry(i, "s1", w[i], UtcNow(1000 * (Len(w) + 1 - i)),
                             "insight A"))]

InitAnalytics ==
    /\ mood_entries = <<>>
    /\ user_progress = <<>>
    /\ stories = <<>>
    /\ req = EmptyBag
    /\ resp = NoResponse
    /\ clock = 0
    /\ acked = {}
    /\ generated = {}
    /\ created = <<>>
    /\ upd_done = [s \in Sessions |-> 0]
    /\ inc_done = [s \in Sessions |-> 0]
    /\ overlap = [s \in Sessions |-> FALSE]
    /\ supported = <<>>
    /\ store_failures = 0
    /\ failed = FALSE
    /\ window \in Windows
    /\ stats = <<>>

\* the stats part of get_mood_analytics, applied to the window
ComputeAnalytics ==
    /\ stats = <<>>
    /\ stats' = MoodStats(WindowMoods(window), "insight A")
    /\ UNCHANGED <<store, req, resp, clock, history, window>>

NextAnalytics == ComputeAnalytics

SpecAnalytics == InitAnalytics /\ [][NextAnalytics]_vars

\* ------------------------------------------------------------------------
\* Properties
\* ------------------------------------------------------------------------
\* the user_progress documents of a session
ProgressOf(user_session) ==
    {user_progress[i] : i \in MatchIdx(user_progress, user_session)}

\* no progress call is under way for the session
Quiet(user_session) == ~Overlaps(req, user_session)

RECURSIVE SumPoints(_, _)
\* the total_points of the documents of coll at the positions idx, summed
SumPoints(coll, idx) ==
    IF idx = {} THEN 0
    ELSE LET i == CHOOSE j \in idx : TRUE
         IN coll[i].total_points + SumPoints(coll, idx \ {i})

RECURSIVE SumCounts(_, _)
\* and their mood_entries_count
SumCounts(coll, idx) ==
    IF idx = {} THEN 0
    ELSE LET i == CHOOSE j \in idx : TRUE
         IN coll[i].mood_entries_count + SumCounts(coll, idx \ {i})

\* C1: in every reachable state, whatever the interleaving of POST /api/mood
\* and GET /api/progress requests, user_progress holds at most one document
\* per session.
C1_AtMostOneProgressPerSession ==
    \A s \in Sessions : Cardinality(MatchIdx(user_progress, s)) <= 1

\* C2: when the progress calls of a session have run one after the other and
\* no store call has failed, k >= 1 completed update_user_progress calls
\* leave exactly one document for the session, with mood_entries_count = k
\* and total_points = 5 * k.
C2_SequentialCalls ==
    \A s \in Sessions :
        (~overlap[s] /\ store_failures = 0 /\ upd_done[s] >= 1 /\ Quiet(s))
        => \E doc \in ProgressOf(s) :
              /\ Cardinality(MatchIdx(user_progress, s)) = 1
              /\ doc.mood_entries_count = upd_done[s]
              /\ doc.total_points = 5 * upd_done[s]

\* two calls, one after the other, on a session that had no document: the
\* first created it, the second incremented it
C2_Witness ==
    \E s \in Sessions :
        /\ ~overlap[s] /\ store_failures = 0 /\ Quiet(s)
        /\ upd_done[s] = 2 /\ inc_done[s] = 1
        /\ \E doc \in ProgressOf(s) :
              doc.mood_entries_count = 2 /\ doc.total_points = 10

\* a text that is there and not empty
NonEmpty(text) == text \notin {"", NoText}

\* the list has the entry, with a non-empty ai_insights
InList(e, moods) ==
    \E i \in 1..Len(moods) : moods[i].id = e.id /\ NonEmpty(moods[i].ai_insights)

\* C3, where the limit leaves no entry of the session out: a GET
\* /api/mood/s with a limit of at least the number of entries of s returns
\* every entry of s with a mood_score in 1..10 that a POST /api/mood had
\* returned before it, with a non-empty ai_insights.
C3_ListedWithInsights ==
    (/\ resp.op = "get_user_moods" /\ resp.status = 200
     /\ resp.limit >= 1 /\ resp.limit >= resp.n_matching)
    => \A e \in resp.acked_before :
          e.mood_score \in 1..10 => InList(e, resp.moods)

\* the other entries of the session that the store held and whose stored
\* timestamp is later than that of e
Newer(e, stored) ==
    {d \in stored : /\ d.id # e.id
                    /\ d.timestamp.micros > Truncate(e.timestamp.micros)}

\* and those whose stored timestamp is that of e or later
NotOlder(e, stored) ==
    {d \in stored : /\ d.id # e.id
                    /\ d.timestamp.micros >= Truncate(e.timestamp.micros)}

\* what get_user_moods does return: an entry of s that a POST /api/mood had
\* returned before is in the list when fewer than limit other entries of s
\* have a stored timestamp equal to its own or later, and is not when limit
\* or more have a later one; in the list it is the stored copy of what the
\* POST returned, with the text the Insight Generator replied for it.
GetUserMoodsWithinLimit ==
    (resp.op = "get_user_moods" /\ resp.status = 200 /\ resp.limit >= 1)
    => \A e \in resp.acked_before :
          LET returned == \E i \in 1..Len(resp.moods) : resp.moods[i].id = e.id
          IN /\ Cardinality(NotOlder(e, resp.stored)) < resp.limit => returned
             /\ Cardinality(Newer(e, resp.stored)) >= resp.limit => ~returned
             /\ \A i \in 1..Len(resp.moods) :
                   resp.moods[i].id = e.id => resp.moods[i] = StoredCopy(e)
             /\ [id |-> e.id, reply |-> e.ai_insights] \in generated

\* C4: POST /api/mood answers a mood_score of 0 or 11 with a client error
\* and stores nothing for it, so that every stored MoodEntry has a
\* mood_score in 1..10.
C4_ScoreValidated ==
    /\ \A i \in 1..Len(mood_entries) : mood_entries[i].mood_score \in 1..10
    /\ (resp.op = "create_mood_entry" /\ resp.mood_obj # <<>>
        /\ resp.mood_obj[1].mood_score \notin 1..10)
       => resp.status \in 400..499

\* C5: when POST /api/mood is answered with a non-success status, the entry
\* the request built is not in the store.
C5_FailedPostStoredNothing ==
    (resp.op = "create_mood_entry" /\ resp.status # 200)
    => \A i \in 1..Len(mood_entries) :
          \A j \in 1..Len(resp.mood_obj) : mood_entries[i].id # resp.mood_obj[j].id

\* a step of a GET /api/analytics request
AnalyticsStep ==
    \/ resp' # resp /\ resp'.op = "get_mood_analytics"
    \/ /\ req' # req
       /\ \E r \in BagToSet(req) \cup BagToSet(req') :
             /\ r.op = "get_mood_analytics"
             /\ CopiesIn(r, req') # CopiesIn(r, req)

\* C6: GET /api/analytics for a session with no stored MoodEntry, once its
\* find has returned (the empty result), answers
\* {message: "No mood data available"}, and whether the find returned or
\* raised it never gets to the Insight Generator call; and no step of the
\* handler writes to a collection.
C6_NoData ==
    [][/\ (resp'.op = "get_mood_analytics" /\ resp'.n_matching = 0)
          => /\ ~resp'.called_llm
             /\ ~resp'.store_failed
                => /\ resp'.status = 200
                   /\ resp'.kind = "message"
                   /\ resp'.message = "No mood data available"
       /\ \A r \in BagToSet(req') : r.pc = "an_llm" => r.n_matching > 0
       /\ AnalyticsStep => UNCHANGED store]_vars

\* the no-data answer for a session, while the other session has entries
C6_Witness ==
    /\ resp.op = "get_mood_analytics" /\ resp.kind = "message"
    /\ resp.status = 200 /\ ~resp.store_failed
    /\ resp.n_matching = 0 /\ ~resp.called_llm
    /\ \E i \in 1..Len(mood_entries) :
          mood_entries[i].user_session # resp.user_session

\* C7: for a window of 1 to 14 entries, trend is "improving" exactly when
\* the most recent score is greater than the average_mood of the same
\* response, and "stable" otherwise; scores 8, 6, 7 give 7.0 and
\* "improving".
C7_Trend ==
    stats # <<>>
    => /\ stats[1].trend =
             (IF 10 * window[1] > stats[1].average_mood
              THEN "improving" ELSE "stable")
       /\ window = <<8, 6, 7>>
          => stats[1].average_mood = 70 /\ stats[1].trend = "improving"

\* a full window whose most recent score is just above the mean: thirteen
\* 7s and a 6, mean 6.93, average_mood 6.9
C7_Witness ==
    /\ stats # <<>>
    /\ Len(window) = AnalyticsLimit /\ window[1] = 7
    /\ stats[1].average_mood = 69 /\ stats[1].trend = "improving"

Abs(x) == IF x < 0 THEN -x ELSE x

\* t tenths is a tenth nearest to total / n
Nearest(t, total, n) == 2 * Abs(10 * total - n * t) <= n

\* total / n lies halfway between two tenths
Tie(total, n) == (20 * total) % n = 0 /\ ((20 * total) \div n) % 2 = 1

\* C8, as stated: for scores in 1..10, average_mood is the mean rounded to
\* one decimal place, an exact half away from zero.
C8_HalfAwayFromZero ==
    (stats # <<>> /\ \A i \in 1..Len(window) : window[i] \in 1..10)
    => LET total == SumSeq(window)
           n == Len(window)
           t == stats[1].average_mood
       IN /\ Nearest(t, total, n)
          /\ Tie(total, n) => n * t > 10 * total

\* C8, amended: for scores in 1..10, average_mood is the mean rounded to one
\* decimal place, an exact half to the even tenth (6.25 gives 6.2, 6.75
\* gives 6.8).
C8_HalfToEven ==
    (stats # <<>> /\ \A i \in 1..Len(window) : window[i] \in 1..10)
    => LET total == SumSeq(window)
           n == Len(window)
           t == stats[1].average_mood
       IN /\ Nearest(t, total, n)
          /\ Tie(total, n) => t % 2 = 0

\* scores 7, 6, 6, 6: the mean is 6.25 and average_mood 6.2
C8_Witness ==
    /\ stats # <<>>
    /\ window = <<7, 6, 6, 6>>
    /\ stats[1].average_mood = 62

\* C9: the support_count of a story is the number of support calls answered
\* for its id, whatever their number and order, and no step lowers it.
C9_SupportCount ==
    [][/\ \A i \in 1..Len(stories') :
             stories'[i].support_count = supported'[i]
       /\ \A i \in 1..Len(stories) :
             /\ stories'[i].id = stories[i].id
             /\ stories'[i].support_count >= stories[i].support_count]_vars

\* every support call of the run went to one story, among others
C9_Witness ==
    /\ Len(stories) >= 2
    /\ \E i \in 1..Len(stories) :
          stories[i].support_count = MaxSupports /\ supported[i] = MaxSupports

\* C10: the update_user_progress calls that find a document of the session
\* add, whatever their interleaving, 5 each to total_points and 1 each to
\* mood_entries_count of the session's documents, and to the one document
\* when there is one; no document's id, user_session, completed_challenges
\* or current_streak changes; and a call finds no document while there is
\* one only when it ran together with the call that created it.
C10_NoLostUpdate ==
    /\ Len(created) = Len(user_progress)
    /\ \A i \in 1..Len(user_progress) :
          /\ user_progress[i].id = created[i].id
          /\ user_progress[i].user_session = created[i].user_session
          /\ user_progress[i].completed_challenges = created[i].completed_challenges
          /\ user_progress[i].current_streak = created[i].current_streak
          /\ user_progress[i].total_points >= created[i].total_points
          /\ user_progress[i].mood_entries_count >= created[i].mood_entries_count
    /\ \A s \in Sessions :
          LET idx == MatchIdx(user_progress, s)
          IN /\ SumPoints(user_progress, idx)
                  = SumPoints(created, idx) + 5 * inc_done[s]
             /\ SumCounts(user_progress, idx)
                  = SumCounts(created, idx) + inc_done[s]
    /\ \A r \in Requests :
          (r.pc = "write" /\ ~r.found
           /\ MatchIdx(user_progress, r.user_session) # {})
          => overlap[r.user_session]

\* two calls under way at once on a session whose one document existed
\* before either: both increments are there
C10_Witness ==
    \E s \in Sessions :
        /\ overlap[s] /\ Quiet(s) /\ inc_done[s] = 2
        /\ \E i \in 1..Len(user_progress) :
              /\ MatchIdx(user_progress, s) = {i}
              /\ created[i].total_points = 0
              /\ user_progress[i].total_points = 10
              /\ user_progress[i].mood_entries_count = 2

\* C11: when no request is under way and every request so far was answered
\* with success, the UserProgress that GET /api/progress returns for a
\* session with at least one stored MoodEntry has mood_entries_count equal
\* to the number of the session's stored entries and total_points five
\* times that, however the earlier requests were interleaved.
C11_ProgressMatchesMoods ==
    (/\ resp.op = "get_user_progress" /\ resp.status = 200
     /\ req = EmptyBag /\ ~failed /\ store_failures = 0
     /\ CountMoods(resp.user_session) >= 1)
    => /\ resp.progress[1].mood_entries_count = CountMoods(resp.user_session)
       /\ resp.progress[1].total_points
             = DefaultPoints * CountMoods(resp.user_session)

====
